---- MODULE Spec2Model ----
(***************************************************************************)
(* impact-scanner: the symbol extractor (symbol.rs), the scope path        *)
(* deriver (language/rust.rs), the import resolver, reference extractor    *)
(* and usage matcher (usage.rs), driven as main.rs drives them.            *)
(*                                                                         *)
(* A syntax tree node is a record                                          *)
(*   [kind, named, field, text, row, endRow, children]                     *)
(* as tree-sitter exposes it: kind() tag, is_named(), the field name the   *)
(* node has in its parent, utf8_text(), start_position().row,              *)
(* end_position().row (both 0-based) and the ordered children.             *)
(* A path is [dirs, stem, ext]: the directory components, then the file    *)
(* name split as Path::file_stem / Path::extension split it.               *)
(* Option<T> is a sequence of length 0 (None) or 1 (Some).                 *)
(***************************************************************************)
EXTENDS Integers, Sequences, FiniteSets, TLC

VARIABLES
    diff,           \* new_lineno of the '+' lines of the staged diff of `file`
    file,           \* path of the changed file, as git reports it
    tree,           \* parsed tree of the changed file
    project,        \* the .rs files WalkDir yields, in walk order
    pc,             \* position in main
    changed_lines,  \* changed_map[file] as a set (main.rs:58)
    symbols,        \* result of extract_changed_symbols
    scope_stack,    \* the scope stack when walk_tree has returned
    symbol,         \* argument of the running find_symbol_usages call
    scanned,        \* the files visited so far: [path, tree, outcome]
    use_map,        \* Import Map of the file being matched
    used_symbols,   \* References of the file being matched
    ref_idx,        \* index in used_symbols of the next Reference
    usages,         \* the HashSet<Usage> being accumulated
    last,           \* the Reference matched last: resolved form and outcome
    base_scope,     \* what scope_from_path returned for `file`
    declaration     \* the declaration resolved last and the Result it gave

vars == <<diff, file, tree, project, pc, changed_lines, symbols, scope_stack,
          symbol, scanned, use_map, used_symbols, ref_idx, usages, last,
          base_scope, declaration>>

(***************************************************************************)
(* Bounds of the model.                                                    *)
(***************************************************************************)
\* number of lines of a source file of the extraction scenarios
MaxLine == 6
\* largest number of '+' lines in the staged diff of the changed file
MaxChanged == 2

None == <<>>
Some(x) == <<x>>

Pop(s) == IF Len(s) = 0 THEN s ELSE SubSeq(s, 1, Len(s) - 1)
Last(s) == s[Len(s)]

(***************************************************************************)
(* Syntax trees.                                                           *)
(***************************************************************************)
Node(kind, named, field, text, row, endRow, children) ==
    [kind |-> kind, named |-> named, field |-> field, text |-> text,
     row |-> row, endRow |-> endRow, children |-> children]

NoNode == Node("", FALSE, "", "", 0, 0, <<>>)

Tok(kind, row) == Node(kind, FALSE, "", kind, row, row, <<>>)

WithField(node, f) == [node EXCEPT !.field = f]

Identifier(text, row) == Node("identifier", TRUE, "", text, row, row, <<>>)

\* Node::child_by_field_name: the first child carrying the field, if any
ChildByFieldName(node, f) ==
    LET hits == SelectSeq(node.children, LAMBDA c : c.field = f)
    IN  IF Len(hits) = 0 THEN NoNode ELSE hits[1]

\* Node::named_children
NamedChildren(node) == SelectSeq(node.children, LAMBDA c : c.named)

\* visibility_modifier: `pub`, `pub(crate)`, `pub(self)`, ... or `crate`
VisibilityModifier(text, row) ==
    Node("visibility_modifier", TRUE, "", text, row, row, <<>>)

\* block / declaration_list: `{` items `}`
Braced(kind, field, s, e, items) ==
    Node(kind, TRUE, field, "", s, e, <<Tok("{", s)>> \o items \o <<Tok("}", e)>>)

\* function_item: optional(visibility_modifier) 'fn' name parameters body.
\* vis is a sequence of 0 or 1 visibility_modifier; the `fn` keyword and the
\* name token are on row nameRow.
FunctionItem(vis, name, s, nameRow, e, body) ==
    Node("function_item", TRUE, "", "", s, e,
         vis \o <<Tok("fn", nameRow),
                  WithField(Identifier(name, nameRow), "name"),
                  Node("parameters", TRUE, "parameters", "", nameRow, nameRow,
                       <<Tok("(", nameRow), Tok(")", nameRow)>>),
                  Braced("block", "body", nameRow, e, body)>>)

\* mod_item with a body: optional(visibility_modifier) 'mod' name declaration_list
ModItemBody(vis, name, s, e, body) ==
    Node("mod_item", TRUE, "", "", s, e,
         vis \o <<Tok("mod", s), WithField(Identifier(name, s), "name"),
                  Braced("declaration_list", "body", s, e, body)>>)

\* mod_item without a body: optional(visibility_modifier) 'mod' name ';'
ModItem(vis, name, s) ==
    Node("mod_item", TRUE, "", "", s, s,
         vis \o <<Tok("mod", s), WithField(Identifier(name, s), "name"), Tok(";", s)>>)

\* impl_item: 'impl' type declaration_list
ImplItem(type, s, e, body) ==
    Node("impl_item", TRUE, "", "", s, e,
         <<Tok("impl", s),
           Node("type_identifier", TRUE, "type", type, s, s, <<>>),
           Braced("declaration_list", "body", s, e, body)>>)

SourceFile(items, lines) == Node("source_file", TRUE, "", "", 0, lines, items)

(***************************************************************************)
(* Paths.                                                                  *)
(***************************************************************************)
PathBuf(dirs, stem, ext) == [dirs |-> dirs, stem |-> stem, ext |-> ext]

\* The last component of Path::components(): the file name.  With an extension
\* it is "stem.ext", a string no directory marker equals; "<file>" stands for it.
FileComponent(p) == IF p.ext = "" THEN p.stem ELSE "<file>"

\* Path::components(): a `.` is a component only at the start of the path
Components(p) ==
    (IF Len(p.dirs) > 0 /\ p.dirs[1] = "." THEN <<".">> ELSE <<>>)
    \o SelectSeq(p.dirs, LAMBDA d : d # ".") \o <<FileComponent(p)>>

RECURSIVE SkipWhileMarker(_)
SkipWhileMarker(cs) ==
    IF Len(cs) > 0 /\ cs[1] \in {"src", "tests", "src-bin", "."}
    THEN SkipWhileMarker(Tail(cs))
    ELSE cs

\* scope_from_path that gives an index file a segment of its own
ScopeWithIndexStem(file_path) ==
    <<"crate">> \o Append(Pop(SkipWhileMarker(Components(file_path))), file_path.stem)

scope_from_path(file_path) ==
    LET components == SkipWhileMarker(Components(file_path))
        popped == Pop(components)
        pushed == IF file_path.stem \notin {"mod", "lib", "main"}
                  THEN Append(popped, file_path.stem)
                  ELSE popped
    IN  <<"crate">> \o pushed

(***************************************************************************)
(* Symbols (symbol.rs) and the language plugin (language/rust.rs).         *)
(***************************************************************************)
Symbol(naming, line, f, kind, is_exported, scope) ==
    [naming |-> naming, line |-> line, file |-> f, kind |-> kind,
     is_exported |-> is_exported, scope |-> scope]

\* Symbol::name
name(s) ==
    IF s.naming # None THEN s.naming[1]
    ELSE IF Len(s.scope) > 0 THEN Last(s.scope) ELSE "<invalid>"

\* str::starts_with("pub") on the text of a visibility_modifier
StartsWithPub(text) ==
    text \in {"pub", "pub(crate)", "pub(self)", "pub(super)"}

is_exported(node) ==
    LET vis == SelectSeq(node.children, LAMBDA c : c.kind = "visibility_modifier")
    IN  IF Len(vis) = 0 THEN FALSE ELSE StartsWithPub(vis[1].text)

get_scope_name_for_node(node) ==
    IF node.kind \in {"mod_item", "struct_item", "enum_item", "trait_item",
                      "function_item"}
    THEN IF ChildByFieldName(node, "name") # NoNode
         THEN Some(ChildByFieldName(node, "name").text)
         ELSE None
    ELSE IF node.kind = "impl_item"
    THEN IF ChildByFieldName(node, "type") # NoNode
         THEN Some(ChildByFieldName(node, "type").text)
         ELSE None
    ELSE None

get_name_node_of_symbol(node) ==
    IF node.kind = "function_item" /\ ChildByFieldName(node, "name") # NoNode
    THEN Some(ChildByFieldName(node, "name"))
    ELSE None

\* the changed-line predicate of the closure extract_changed_symbols passes
LineOverlaps(node, lines) ==
    \E changed_line \in lines :
        node.row <= changed_line /\ changed_line <= node.endRow

\* the closure extract_changed_symbols passes to extract_symbols
get_name_and_kind_if_interesting(node, lines) ==
    IF LineOverlaps(node, lines) THEN get_name_node_of_symbol(node) ELSE None

\* Emit with the line of the defining node instead of the line of its name token
EmitAtNodeLine(node, name_node, f, st) ==
    [st EXCEPT !.symbols =
        Append(@, Symbol(Some(name_node.text), node.row + 1, f, "Function",
                         is_exported(node), st.scope_stack))]

\* what walk_tree does with a node the closure accepts: one Symbol, no descent
Emit(node, name_node, f, st) ==
    [st EXCEPT !.symbols =
        Append(@, Symbol(Some(name_node.text), name_node.row + 1, f, "Function",
                         is_exported(node), st.scope_stack))]

\* Leave without the pop
LeaveNoPop(new_scope, st) == st

\* the tail of walk_tree: the scope name pushed at entry is popped
Leave(new_scope, st) ==
    IF new_scope # None THEN [st EXCEPT !.scope_stack = Pop(@)] ELSE st

\* st = [symbols, scope_stack]: the two &mut walk_tree threads through
RECURSIVE walk_tree(_, _, _, _)
RECURSIVE WalkChildren(_, _, _, _, _)
\* `for i in 0..node.child_count() { walk_tree(child, ...) }`: the walk of child i
\* is complete (walked is its value) before child i + 1 is visited
WalkChildren(children, i, f, lines, st) ==
    IF i > Len(children) THEN st
    ELSE CHOOSE after \in
             {WalkChildren(children, i + 1, f, lines, walked) :
                 walked \in {walk_tree(children[i], f, lines, st)}} : TRUE

\* Descend that also walks the children of a node it emitted a Symbol for
DescendAlways(node, interesting, f, lines, st) ==
    IF interesting # None
    THEN WalkChildren(node.children, 1, f, lines,
                      Emit(node, interesting[1], f, st))
    ELSE WalkChildren(node.children, 1, f, lines, st)

\* the if / else of walk_tree: a node the closure accepts is not descended into
Descend(node, interesting, f, lines, st) ==
    IF interesting # None
    THEN Emit(node, interesting[1], f, st)
    ELSE WalkChildren(node.children, 1, f, lines, st)

walk_tree(node, f, lines, st) ==
    LET new_scope == get_scope_name_for_node(node)
        st1 == IF new_scope # None
               THEN [st EXCEPT !.scope_stack = Append(@, new_scope[1])]
               ELSE st
        interesting == get_name_and_kind_if_interesting(node, lines)
    IN  Leave(new_scope, Descend(node, interesting, f, lines, st1))

\* extract_symbols with add_path_to_scope = false: the stack is seeded empty
ExtractUnseeded(t, f, lines) ==
    walk_tree(t, f, lines, [symbols |-> <<>>, scope_stack |-> <<>>])

\* extract_symbols with add_path_to_scope = true, as extract_changed_symbols calls it
extract_changed_symbols(t, f, lines) ==
    walk_tree(t, f, lines, [symbols |-> <<>>, scope_stack |-> scope_from_path(f)])

(***************************************************************************)
(* Import resolver (usage.rs).  Every process_* takes the accumulator      *)
(* imported_symbols and returns Result<()> with the accumulator it leaves: *)
(* [ok, val].  The callers drop the accumulator of a failed call.          *)
(***************************************************************************)
Ok(v) == [ok |-> TRUE, val |-> v]
Err == [ok |-> FALSE, val |-> <<>>]

\* `for imported_symbol in imported_symbols { imported_symbol.scope.push(seg) }`
PushAll(imported_symbols, seg) ==
    [i \in 1..Len(imported_symbols) |->
        [imported_symbols[i] EXCEPT !.scope = Append(@, seg)]]

process_crate(imported_symbols) == Ok(PushAll(imported_symbols, "crate"))

\* process_super that keeps the last segment of the scope of the file
ProcessSuperWhole(path, imported_symbols) ==
    Ok([i \in 1..Len(imported_symbols) |->
           [imported_symbols[i] EXCEPT !.scope = @ \o scope_from_path(path)]])

process_super(path, imported_symbols) ==
    LET from_path == Pop(scope_from_path(path))
    IN  Ok([i \in 1..Len(imported_symbols) |->
               [imported_symbols[i] EXCEPT !.scope = @ \o from_path]])

process_metavariable(node, imported_symbols) ==
    Ok(PushAll(imported_symbols, node.text))

get_value_of_identifier(node) == node.text

process_identifier(node, imported_symbols) ==
    Ok(PushAll(imported_symbols, get_value_of_identifier(node)))

RECURSIVE process_scoped_identifier(_, _, _)
RECURSIVE process_generic_type_with_turbofish(_, _, _)
RECURSIVE process_path(_, _, _)
RECURSIVE process_use_clause(_, _, _)
RECURSIVE process_use_list(_, _, _)
RECURSIVE process_scoped_use_list(_, _, _)
RECURSIVE process_use_as_clause(_, _, _)
RECURSIVE process_use_wildcard(_, _, _)
RECURSIVE UseListFrom(_, _, _, _, _)

process_generic_type_with_turbofish(node, path, imported_symbols) ==
    LET type_node == ChildByFieldName(node, "type")
    IN  IF type_node = NoNode THEN Err
        ELSE IF type_node.kind = "_type_identifier"
        THEN process_identifier(node, imported_symbols)
        ELSE IF type_node.kind = "scoped_identifier"
        THEN process_scoped_identifier(node, path, imported_symbols)
        ELSE Err

\* the `path` field of a scoped_identifier (usage.rs:70-91)
ScopedPathPart(path_node, path, imported_symbols) ==
    IF path_node = NoNode THEN Ok(imported_symbols)
    ELSE IF path_node.kind = "self" THEN Ok(imported_symbols)
    ELSE IF path_node.kind = "metavariable"
    THEN process_metavariable(path_node, imported_symbols)
    ELSE IF path_node.kind = "super" THEN process_super(path, imported_symbols)
    ELSE IF path_node.kind = "crate" THEN process_crate(imported_symbols)
    ELSE IF path_node.kind = "identifier"
    THEN process_identifier(path_node, imported_symbols)
    ELSE IF path_node.kind = "scoped_identifier"
    THEN process_scoped_identifier(path_node, path, imported_symbols)
    ELSE IF path_node.kind = "_reserved_identifier"
    THEN process_identifier(path_node, imported_symbols)
    ELSE IF path_node.kind = "bracketed_type" THEN Ok(imported_symbols)
    ELSE IF path_node.kind = "generic_type"
    THEN process_generic_type_with_turbofish(path_node, path, imported_symbols)
    ELSE Err

process_scoped_identifier(node, path, imported_symbols) ==
    LET first == ScopedPathPart(ChildByFieldName(node, "path"), path,
                                imported_symbols)
        name_node == ChildByFieldName(node, "name")
    IN  IF ~first.ok THEN Err
        ELSE IF name_node = NoNode THEN Err
        ELSE IF name_node.kind = "identifier"
        THEN process_identifier(name_node, first.val)
        ELSE IF name_node.kind = "super" THEN process_super(path, first.val)
        ELSE Err

process_path(node, path, imported_symbols) ==
    IF node.kind = "self" THEN Ok(imported_symbols)
    ELSE IF node.kind = "metavariable"
    THEN process_metavariable(node, imported_symbols)
    ELSE IF node.kind = "super" THEN process_super(path, imported_symbols)
    ELSE IF node.kind = "crate" THEN process_crate(imported_symbols)
    ELSE IF node.kind = "identifier" THEN process_identifier(node, imported_symbols)
    ELSE IF node.kind = "scoped_identifier"
    THEN process_scoped_identifier(node, path, imported_symbols)
    ELSE IF node.kind = "_reserved_identifier"
    THEN process_identifier(node, imported_symbols)
    ELSE Err

process_use_wildcard(node, path, imported_symbols) ==
    LET first == IF Len(node.children) > 1
                 THEN process_path(node.children[1], path, imported_symbols)
                 ELSE Ok(imported_symbols)
    IN  IF ~first.ok THEN Err ELSE Ok(PushAll(first.val, "*"))

\* process_use_as_clause that puts the alias in place of the last path segment
UseAsClauseRenamesPath(node, path, imported_symbols) ==
    LET alias_node == ChildByFieldName(node, "alias")
        path_node == ChildByFieldName(node, "path")
        walked == process_path(path_node, path, imported_symbols)
    IN  IF alias_node = NoNode \/ path_node = NoNode \/ ~walked.ok THEN Err
        ELSE Ok([i \in 1 .. Len(walked.val) |->
                    [walked.val[i] EXCEPT
                        !.naming = Some(alias_node.text),
                        !.scope = Append(Pop(@), alias_node.text)]])

process_use_as_clause(node, path, imported_symbols) ==
    LET alias_node == ChildByFieldName(node, "alias")
        alias == get_value_of_identifier(alias_node)
        named == [i \in 1..Len(imported_symbols) |->
                     [imported_symbols[i] EXCEPT !.naming = Some(alias)]]
        path_node == ChildByFieldName(node, "path")
    IN  IF alias_node = NoNode THEN Err
        ELSE IF path_node = NoNode THEN Err
        ELSE process_path(path_node, path, named)

process_scoped_use_list(node, path, imported_symbols) ==
    LET path_node == ChildByFieldName(node, "path")
        first == IF path_node # NoNode
                 THEN process_path(path_node, path, imported_symbols)
                 ELSE Ok(imported_symbols)
        list == ChildByFieldName(node, "list")
    IN  IF ~first.ok THEN Err
        ELSE IF list = NoNode THEN Err
        ELSE process_use_list(list, path, first.val)

\* UseListFrom that stops after the first clause of the list
RECURSIVE UseListFirstOnly(_, _, _, _, _)
UseListFirstOnly(children, i, path, cloned, out) ==
    IF i > Len(children) THEN Ok(out)
    ELSE IF children[i].kind \in {"{", "}", ","}
    THEN UseListFirstOnly(children, i + 1, path, cloned, out)
    ELSE process_use_clause(children[i], path, cloned)

\* UseListFrom that resolves each clause against what the clause before it left
RECURSIVE UseListShared(_, _, _, _, _)
UseListShared(children, i, path, cloned, out) ==
    IF i > Len(children) THEN Ok(out)
    ELSE IF children[i].kind \in {"{", "}", ","}
    THEN UseListShared(children, i + 1, path, cloned, out)
    ELSE LET part == process_use_clause(children[i], path, cloned)
         IN  IF ~part.ok THEN Err
             ELSE UseListShared(children, i + 1, path, part.val, out \o part.val)

\* the loop of process_use_list from child i on: cloned is the accumulator at
\* entry, out the accumulator rebuilt so far
UseListFrom(children, i, path, cloned, out) ==
    IF i > Len(children) THEN Ok(out)
    ELSE IF children[i].kind \in {"{", "}", ","}
    THEN UseListFrom(children, i + 1, path, cloned, out)
    ELSE LET part == process_use_clause(children[i], path, cloned)
         IN  IF ~part.ok THEN Err
             ELSE UseListFrom(children, i + 1, path, cloned, out \o part.val)

process_use_list(node, path, imported_symbols) ==
    UseListFrom(node.children, 1, path, imported_symbols, <<>>)

process_use_clause(node, path, imported_symbols) ==
    IF node.kind = "self" THEN Ok(imported_symbols)
    ELSE IF node.kind = "metavariable"
    THEN process_metavariable(node, imported_symbols)
    ELSE IF node.kind = "super" THEN process_super(path, imported_symbols)
    ELSE IF node.kind = "crate" THEN process_crate(imported_symbols)
    ELSE IF node.kind = "identifier" THEN process_identifier(node, imported_symbols)
    ELSE IF node.kind = "scoped_identifier"
    THEN process_scoped_identifier(node, path, imported_symbols)
    ELSE IF node.kind = "_reserved_identifier"
    THEN process_identifier(node, imported_symbols)
    ELSE IF node.kind = "use_as_clause"
    THEN process_use_as_clause(node, path, imported_symbols)
    ELSE IF node.kind = "use_list" THEN process_use_list(node, path, imported_symbols)
    ELSE IF node.kind = "scoped_use_list"
    THEN process_scoped_use_list(node, path, imported_symbols)
    ELSE IF node.kind = "use_wildcard"
    THEN process_use_wildcard(node, path, imported_symbols)
    ELSE Err

\* `node.child(0).map(|arg| arg.kind() == "visibility_modifier").unwrap_or(false)`
FirstChildIsVisibility(node) ==
    Len(node.children) > 0 /\ node.children[1].kind = "visibility_modifier"

\* process_mod_item that never marks the module as exported
ModItemPrivate(node, path) ==
    LET identifier == ChildByFieldName(node, "name")
    IN  IF identifier = NoNode THEN Err
        ELSE Ok(<<Symbol(None, node.row + 1, path, "Used", FALSE,
                         Append(scope_from_path(path),
                                get_value_of_identifier(identifier)))>>)

process_mod_item(node, path) ==
    LET identifier == ChildByFieldName(node, "name")
    IN  IF identifier = NoNode THEN Err
        ELSE Ok(<<Symbol(None, node.row + 1, path, "Used",
                         FirstChildIsVisibility(node),
                         Append(scope_from_path(path),
                                get_value_of_identifier(identifier)))>>)

process_use_declaration(node, path) ==
    LET argument == ChildByFieldName(node, "argument")
    IN  IF argument = NoNode THEN Err
        ELSE process_use_clause(argument, path,
                 <<Symbol(None, node.row + 1, path, "Used",
                          FirstChildIsVisibility(node), <<>>)>>)

\* an insert that keeps the entry a key already has
InsertKeepFirst(map, key, value) ==
    [k \in DOMAIN map \cup {key} |-> IF k \in DOMAIN map THEN map[k] ELSE value]

\* HashMap::insert
Insert(map, key, value) ==
    [k \in DOMAIN map \cup {key} |-> IF k = key THEN value ELSE map[k]]

RECURSIVE InsertAll(_, _, _)
InsertAll(map, imported, i) ==
    IF i > Len(imported) THEN map
    ELSE InsertAll(Insert(map, name(imported[i]), imported[i]), imported, i + 1)

\* [ok, map]: the Result and the &mut use_map as the call leaves it
RECURSIVE extract_use_map(_, _, _)
RECURSIVE UseMapChildren(_, _, _, _)
UseMapChildren(children, i, path, acc) ==
    IF ~acc.ok \/ i > Len(children) THEN acc
    ELSE UseMapChildren(children, i + 1, path,
                        extract_use_map(children[i], path, acc.map))

extract_use_map(node, path, map) ==
    LET imported == IF node.kind = "use_declaration"
                    THEN process_use_declaration(node, path)
                    ELSE IF node.kind = "mod_item"
                    THEN process_mod_item(node, path)
                    ELSE Ok(<<>>)
    IN  IF ~imported.ok THEN [ok |-> FALSE, map |-> map]
        ELSE UseMapChildren(NamedChildren(node), 1, path,
                            [ok |-> TRUE, map |-> InsertAll(map, imported.val, 1)])

(***************************************************************************)
(* Reference extractor (usage.rs).                                         *)
(***************************************************************************)
NewReference(node, path) ==
    <<Symbol(None, node.row + 1, path, "Used", FALSE, <<>>)>>

RECURSIVE extract_identifiers(_, _)
RECURSIVE IdentifiersOfChildren(_, _, _, _)
IdentifiersOfChildren(children, i, path, acc) ==
    IF ~acc.ok \/ i > Len(children) THEN acc
    ELSE LET r == extract_identifiers(children[i], path)
         IN  IF ~r.ok THEN Err
             ELSE IdentifiersOfChildren(children, i + 1, path, Ok(acc.val \o r.val))

\* extract_identifiers that goes on into the qualified path it has matched
ExtractEverySegment(node, path) ==
    IF node.kind = "scoped_identifier"
    THEN LET own == process_scoped_identifier(node, path, NewReference(node, path))
             inner == IdentifiersOfChildren(NamedChildren(node), 1, path, Ok(<<>>))
         IN  IF ~own.ok \/ ~inner.ok THEN Err ELSE Ok(own.val \o inner.val)
    ELSE IF node.kind = "identifier"
    THEN process_identifier(node, NewReference(node, path))
    ELSE IdentifiersOfChildren(NamedChildren(node), 1, path, Ok(<<>>))

\* extract_identifiers that leaves the use declarations out
ExtractOutsideImports(node, path) ==
    IF node.kind = "use_declaration" THEN Ok(<<>>)
    ELSE IF node.kind = "scoped_identifier"
    THEN process_scoped_identifier(node, path, NewReference(node, path))
    ELSE IF node.kind = "identifier"
    THEN process_identifier(node, NewReference(node, path))
    ELSE IdentifiersOfChildren(NamedChildren(node), 1, path, Ok(<<>>))

extract_identifiers(node, path) ==
    IF node.kind = "scoped_identifier"
    THEN process_scoped_identifier(node, path, NewReference(node, path))
    ELSE IF node.kind = "identifier"
    THEN process_identifier(node, NewReference(node, path))
    ELSE IdentifiersOfChildren(NamedChildren(node), 1, path, Ok(<<>>))

(***************************************************************************)
(* Usage matcher (usage.rs, find_symbol_usages).                           *)
(***************************************************************************)
Usage(line, f) == [line |-> line, file |-> f]

\* a collection that keeps every value pushed into it
InsertEvery(set, value) ==
    set \cup {[line |-> value.line, file |-> value.file, nth |-> Cardinality(set)]}

\* HashSet<Usage>::insert: Usage derives Eq and Hash from line and file
HashSetInsert(set, value) == set \cup {value}

\* the working directory of the process: the repository root
Cwd == <<"/", "repo">>

\* Path::canonicalize of an existing file: absolute, no `.` component
Canonicalize(p) ==
    [p EXCEPT !.dirs = Cwd \o SelectSeq(p.dirs, LAMBDA d : d # ".")]

\* LookupImport falling back to a glob import for a name that is no key
LookupImportGlob(used_symbol, map) ==
    IF Len(used_symbol.scope) > 0 /\ used_symbol.scope[1] \in DOMAIN map
    THEN Some(map[used_symbol.scope[1]])
    ELSE IF Len(used_symbol.scope) > 0 /\ "*" \in DOMAIN map
    THEN Some(map["*"])
    ELSE None

\* `used_symbol.scope.first().and_then(|v| use_map.get(v))`
LookupImport(used_symbol, map) ==
    IF Len(used_symbol.scope) > 0 /\ used_symbol.scope[1] \in DOMAIN map
    THEN Some(map[used_symbol.scope[1]])
    ELSE None

\* Resolve without the splice
ResolveNoSplice(used_symbol, map) == used_symbol

\* a splice that keeps the last segment of the path of the Import
ResolveWholeImport(used_symbol, map) ==
    LET imported_symbol == LookupImport(used_symbol, map)
    IN  IF imported_symbol # None
        THEN [used_symbol EXCEPT !.scope = imported_symbol[1].scope \o @]
        ELSE used_symbol

\* the splice of usage.rs:489-493
Resolve(used_symbol, map) ==
    LET imported_symbol == LookupImport(used_symbol, map)
    IN  IF imported_symbol # None
        THEN [used_symbol EXCEPT !.scope = Pop(imported_symbol[1].scope) \o @]
        ELSE used_symbol

SameFile(target, path) == Canonicalize(target.file) = Canonicalize(path)

IsSuffix(s, t) ==
    Len(s) <= Len(t) /\ SubSeq(t, Len(t) - Len(s) + 1, Len(t)) = s

IsPrefix(s, t) == Len(s) <= Len(t) /\ SubSeq(t, 1, Len(s)) = s

\* IsUsage accepting a Reference whose path is the tail of the target's scope
IsUsageSuffix(target, used_symbol, path) ==
    IF SameFile(target, path) THEN TRUE
    ELSE IF name(target) = name(used_symbol)
    THEN IsSuffix(used_symbol.scope, target.scope)
    ELSE FALSE

\* IsUsage without the same-file branch
IsUsageCrossOnly(target, used_symbol, path) ==
    IF name(target) = name(used_symbol)
    THEN target.scope = used_symbol.scope
    ELSE FALSE

\* the if / else-if chain of usage.rs:495-515: TRUE when usages.insert is called
IsUsage(target, used_symbol, path) ==
    IF SameFile(target, path) THEN TRUE
    ELSE IF name(target) = name(used_symbol)
    THEN target.scope = used_symbol.scope
    ELSE FALSE

(***************************************************************************)
(* Source text of the scenarios, as the trees tree-sitter-rust gives.      *)
(***************************************************************************)
\* a path keyword or an identifier
Segment(text, row) ==
    IF text \in {"crate", "super", "self"}
    THEN Node(text, TRUE, "", text, row, row, <<>>)
    ELSE Identifier(text, row)

\* scoped_identifier: optional(path) '::' name
ScopedIdentifier(path_node, name_node, row) ==
    Node("scoped_identifier", TRUE, "", "", row, row,
         (IF path_node = NoNode THEN <<>> ELSE <<WithField(path_node, "path")>>)
         \o <<Tok("::", row), WithField(name_node, "name")>>)

\* the _path written seg1::seg2::...::segn
RECURSIVE PathOf(_, _)
PathOf(segs, row) ==
    IF Len(segs) = 1 THEN Segment(segs[1], row)
    ELSE ScopedIdentifier(PathOf(Pop(segs), row), Segment(Last(segs), row), row)

\* use_as_clause: path 'as' alias
UseAsClause(path_node, alias, row) ==
    Node("use_as_clause", TRUE, "", "", row, row,
         <<WithField(path_node, "path"), Tok("as", row),
           WithField(Identifier(alias, row), "alias")>>)

RECURSIVE Separated(_, _)
Separated(items, row) ==
    IF Len(items) <= 1 THEN items
    ELSE <<items[1], Tok(",", row)>> \o Separated(Tail(items), row)

\* use_list: '{' sepBy(',', _use_clause) '}'
UseList(items, row) ==
    Node("use_list", TRUE, "", "", row, row,
         <<Tok("{", row)>> \o Separated(items, row) \o <<Tok("}", row)>>)

\* scoped_use_list: optional(path) '::' list
ScopedUseList(path_node, list, row) ==
    Node("scoped_use_list", TRUE, "", "", row, row,
         (IF path_node = NoNode THEN <<>> ELSE <<WithField(path_node, "path")>>)
         \o <<Tok("::", row), WithField(list, "list")>>)

\* use_wildcard: optional(seq(optional(_path), '::')) '*'
UseWildcard(path_node, colons, row) ==
    Node("use_wildcard", TRUE, "", "", row, row,
         (IF path_node = NoNode THEN <<>> ELSE <<path_node>>)
         \o (IF colons THEN <<Tok("::", row)>> ELSE <<>>)
         \o <<Tok("*", row)>>)

\* use_declaration: optional(visibility_modifier) 'use' argument ';'
UseDeclaration(vis, argument, row) ==
    Node("use_declaration", TRUE, "", "", row, row,
         vis \o <<Tok("use", row), WithField(argument, "argument"), Tok(";", row)>>)

\* generic_type (generic_type_with_turbofish): type '::' type_arguments
TurbofishType(type, row) ==
    Node("generic_type", TRUE, "", "", row, row,
         <<Node("type_identifier", TRUE, "type", type, row, row, <<>>),
           Tok("::", row),
           Node("type_arguments", TRUE, "type_arguments", "", row, row,
                <<Tok("<", row),
                  Node("primitive_type", TRUE, "", "u8", row, row, <<>>),
                  Tok(">", row)>>)>>)

\* bracketed_type: `<` type `>`, the path of `<T>::name`
BracketedType(type, row) ==
    Node("bracketed_type", TRUE, "", "", row, row,
         <<Tok("<", row),
           Node("type_identifier", TRUE, "", type, row, row, <<>>),
           Tok(">", row)>>)

\* expression_statement: call_expression(function, arguments) ';'
CallStatement(function, row) ==
    Node("expression_statement", TRUE, "", "", row, row,
         <<Node("call_expression", TRUE, "", "", row, row,
                <<WithField(function, "function"),
                  Node("arguments", TRUE, "arguments", "", row, row,
                       <<Tok("(", row), Tok(")", row)>>)>>),
           Tok(";", row)>>)

(***************************************************************************)
(* The scenarios.  The changed file is src/<stem>.rs of the repository the *)
(* tool runs in (project path `.`), so WalkDir yields it as ./src/<stem>.rs.*)
(***************************************************************************)
GitPath(stem) == PathBuf(<<"src">>, stem, "rs")
WalkPath(p) == [p EXCEPT !.dirs = <<".">> \o @]

Rows == 0 .. (MaxLine - 1)

\* the staged diffs of the changed file: new_lineno of at most MaxChanged '+'
\* lines; 0 is a line without a new line number
Diffs == {d \in SUBSET (0 .. MaxLine) : d # {} /\ Cardinality(d) <= MaxChanged}

\* trees of the extraction scenarios
OneFunction ==
    {SourceFile(<<FunctionItem(<<>>, "helper", s, s, e, <<>>)>>, MaxLine) :
        <<s, e>> \in {r \in Rows \X Rows : r[1] <= r[2]}}

\* `pub` on the line before `fn helper()`
SplitHeader ==
    {SourceFile(<<FunctionItem(<<VisibilityModifier("pub", r[1])>>, "helper",
                               r[1], r[1] + 1, r[2], <<>>)>>, MaxLine) :
        r \in {r \in Rows \X Rows : r[1] + 1 <= r[2]}}

Nested ==
    {SourceFile(<<FunctionItem(<<>>, "outer", r[1], r[1], r[4],
                    <<FunctionItem(<<>>, "inner", r[2], r[2], r[3], <<>>)>>)>>,
                MaxLine) :
        r \in {r \in Rows \X Rows \X Rows \X Rows :
                  r[1] <= r[2] /\ r[2] <= r[3] /\ r[3] <= r[4]}}

InModule ==
    {SourceFile(<<ModItemBody(<<>>, "m", r[1], r[4],
                    <<FunctionItem(<<>>, "helper", r[2], r[2], r[3], <<>>)>>)>>,
                MaxLine) :
        r \in {r \in Rows \X Rows \X Rows \X Rows :
                  r[1] < r[2] /\ r[2] <= r[3] /\ r[3] < r[4]}}

InImpl ==
    {SourceFile(<<ImplItem("T", r[1], r[4],
                    <<FunctionItem(<<VisibilityModifier("pub", r[2])>>, "helper",
                                   r[2], r[2], r[3], <<>>)>>)>>,
                MaxLine) :
        r \in {r \in Rows \X Rows \X Rows \X Rows :
                  r[1] < r[2] /\ r[2] <= r[3] /\ r[3] < r[4]}}

TwoFunctions ==
    {SourceFile(<<FunctionItem(<<>>, "helper", r[1], r[1], r[2], <<>>),
                  FunctionItem(<<>>, "other", r[3], r[3], r[4], <<>>)>>,
                MaxLine) :
        r \in {r \in Rows \X Rows \X Rows \X Rows :
                  r[1] <= r[2] /\ r[2] < r[3] /\ r[3] <= r[4]}}

\* `pub(self) fn helper()` and `pub(crate) fn helper()` on lines 2 to 3
Restricted ==
    {SourceFile(<<FunctionItem(<<VisibilityModifier(v, 1)>>, "helper", 1, 1, 2,
                               <<>>)>>, MaxLine) :
        v \in {"pub(self)", "pub(crate)"}}

ExtractTrees ==
    OneFunction \cup SplitHeader \cup Nested \cup InModule \cup InImpl
    \cup TwoFunctions \cup Restricted

\* the targets of the usage scenarios: <<stem of the declaring file, function>>
Targets == {<<"a", "helper">>, <<"foo", "bar">>}

\* what the body of the target function may hold, on line 6
DeclaringBodies(stem, fn) ==
    {<<>>,
     <<CallStatement(Identifier(fn, 5), 5)>>,
     <<CallStatement(Identifier("other", 5), 5)>>,
     <<CallStatement(PathOf(<<"other", fn>>, 5), 5)>>,
     <<CallStatement(PathOf(<<"crate", stem, "other">>, 5), 5)>>}

\* the declaring file: `fn <fn>() {` on line 5, `}` on line 6
\* or, with `use crate::other::<fn>;` on line 1, a call of the bare name
DeclaringTrees(stem, fn) ==
    {SourceFile(<<FunctionItem(<<>>, fn, 4, 4, 5, body)>>, MaxLine) :
        body \in DeclaringBodies(stem, fn)}
    \cup {SourceFile(<<UseDeclaration(<<>>, PathOf(<<"crate", "other", fn>>, 0), 0),
                       FunctionItem(<<>>, fn, 4, 4, 5,
                                    <<CallStatement(Identifier(fn, 5), 5)>>)>>,
                     MaxLine)}

\* the items a candidate file may open with, on line 1
CandidateHeads(stem, fn) ==
    {<<>>,
     <<UseDeclaration(<<>>, PathOf(<<stem, fn>>, 0), 0)>>,
     <<UseDeclaration(<<>>, PathOf(<<"crate", stem, fn>>, 0), 0)>>,
     <<UseDeclaration(<<>>, PathOf(<<"crate", stem>>, 0), 0)>>,
     <<UseDeclaration(<<>>, PathOf(<<"crate", "other", fn>>, 0), 0)>>,
     <<UseDeclaration(<<>>, PathOf(<<"super", stem, fn>>, 0), 0)>>,
     <<UseDeclaration(<<>>, PathOf(<<"self", stem, fn>>, 0), 0)>>,
     <<UseDeclaration(<<>>, UseWildcard(PathOf(<<"crate", stem>>, 0), TRUE, 0), 0)>>,
     <<UseDeclaration(<<>>, UseWildcard(NoNode, TRUE, 0), 0)>>,
     <<UseDeclaration(<<>>,
           UseAsClause(PathOf(<<"crate", stem, "other">>, 0), fn, 0), 0)>>,
     <<UseDeclaration(<<>>,
           UseAsClause(PathOf(<<"crate", stem, fn>>, 0), "y", 0), 0)>>,
     <<UseDeclaration(<<VisibilityModifier("pub", 0)>>,
           ScopedUseList(PathOf(<<"crate", stem>>, 0),
               UseList(<<Identifier(fn, 0), Identifier("other", 0)>>, 0), 0), 0)>>,
     <<UseDeclaration(<<>>,
           ScopedUseList(PathOf(<<"crate", stem>>, 0),
               UseList(<<UseWildcard(NoNode, FALSE, 0),
                         Identifier("other", 0)>>, 0), 0), 0)>>,
     <<ModItem(<<>>, stem, 0)>>}

\* the function a candidate file may call on line 8
CandidateCalls(stem, fn) ==
    {Identifier(fn, 7),
     Identifier("other", 7),
     Identifier("y", 7),
     PathOf(<<stem, fn>>, 7),
     PathOf(<<"crate", stem, fn>>, 7),
     PathOf(<<"crate", stem>>, 7),
     PathOf(<<"other", fn>>, 7),
     PathOf(<<"self", fn>>, 7),
     ScopedIdentifier(TurbofishType("Vec", 7), Identifier("new", 7), 7),
     ScopedIdentifier(BracketedType("T", 7), Identifier(fn, 7), 7)}

\* a candidate file: the head, then `fn main() {` on line 4 ... `}` on line 9
\* or `use crate::<stem>::<fn>;` and two calls `<fn>(); <fn>();` on line 8
CandidateTrees(stem, fn) ==
    {SourceFile(head \o <<FunctionItem(<<>>, "main", 3, 3, 8,
                              <<CallStatement(call, 7)>>)>>, 9) :
        head \in CandidateHeads(stem, fn), call \in CandidateCalls(stem, fn)}
    \cup {SourceFile(<<UseDeclaration(<<>>, PathOf(<<"crate", stem, fn>>, 0), 0),
                       FunctionItem(<<>>, "main", 3, 3, 8,
                                    <<CallStatement(Identifier(fn, 7), 7),
                                      CallStatement(Identifier(fn, 7), 7)>>)>>, 9)}

CandidatePaths ==
    {PathBuf(<<".", "src">>, "b", "rs"), PathBuf(<<".", "src">>, "main", "rs")}

\* fs::read_to_string and language.parse of a candidate file
Outcomes == {"ok", "read_failed", "parse_failed"}

NoSymbol == Symbol(None, 0, PathBuf(<<>>, "", ""), "", FALSE, <<>>)

NoLast ==
    [path |-> PathBuf(<<>>, "", ""), written |-> NoSymbol, resolved |-> NoSymbol,
     import |-> None, same_file |-> FALSE, reported |-> FALSE]

NoDeclaration == [node |-> NoNode, result |-> Ok(<<>>)]

InitRest ==
    /\ pc = "start"
    /\ changed_lines = {}
    /\ symbols = <<>>
    /\ scope_stack = <<>>
    /\ symbol = NoSymbol
    /\ scanned = <<>>
    /\ use_map = <<>>
    /\ used_symbols = <<>>
    /\ ref_idx = 0
    /\ usages = {}
    /\ last = NoLast
    /\ base_scope = <<>>
    /\ declaration = NoDeclaration

\* usage scenarios: one line of the declaring file is staged
Init ==
    /\ \E target \in Targets :
          /\ file = GitPath(target[1])
          /\ tree \in DeclaringTrees(target[1], target[2])
    /\ diff \in {{l} : l \in 0 .. MaxLine}
    /\ \E candidate \in CandidatePaths : project = {WalkPath(file), candidate}
    /\ InitRest

\* extraction scenarios
InitExtract ==
    /\ file = GitPath("a")
    /\ tree \in ExtractTrees
    /\ diff \in Diffs
    /\ project = {WalkPath(file)}
    /\ InitRest

(***************************************************************************)
(* Actions.                                                                *)
(***************************************************************************)
\* git.rs get_changed_lines: the '+' lines with a line number > 0; main has
\* nothing to do for a file that is no key of the map
GetChangedLines ==
    /\ pc = "start"
    /\ changed_lines' = {line_num \in diff : line_num > 0}
    /\ pc' = IF changed_lines' = {} THEN "done" ELSE "changed"
    /\ UNCHANGED <<diff, file, tree, project, symbols, scope_stack, symbol,
                   scanned, use_map, used_symbols, ref_idx, usages, last,
                   base_scope, declaration>>

\* main.rs symbols_from_changes
SymbolsFromChanges ==
    /\ pc = "changed"
    /\ LET st == extract_changed_symbols(tree, file, changed_lines)
       IN  /\ symbols' = st.symbols
           /\ scope_stack' = st.scope_stack
    /\ pc' = "symbols"
    /\ UNCHANGED <<diff, file, tree, project, changed_lines, symbol, scanned,
                   use_map, used_symbols, ref_idx, usages, last,
                   base_scope, declaration>>

\* main.rs:81-88: find_symbol_usages is entered for a changed symbol
FindSymbolUsages ==
    /\ pc = "symbols"
    /\ \E i \in 1 .. Len(symbols) : symbol' = symbols[i]
    /\ usages' = {}
    /\ scanned' = <<>>
    /\ pc' = "walk"
    /\ UNCHANGED <<diff, file, tree, project, changed_lines, symbols,
                   scope_stack, use_map, used_symbols, ref_idx, last,
                   base_scope, declaration>>

ScannedPaths == {scanned[i].path : i \in 1 .. Len(scanned)}

\* what the walk reads at path: the changed file holds the tree that was
\* extracted from; any other file is a candidate file
Readings(path) ==
    IF Canonicalize(path) = Canonicalize(file)
    THEN {[path |-> path, tree |-> tree, outcome |-> "ok"]}
    ELSE {[path |-> path, tree |-> t, outcome |-> "ok"] :
              t \in CandidateTrees(file.stem, name(symbol))}
         \cup {[path |-> path, tree |-> NoNode, outcome |-> o] :
                  o \in Outcomes \ {"ok"}}

\* usage.rs:453-487: the next entry of the walk, up to the References
VisitFile ==
    /\ pc = "walk"
    /\ \E path \in project \ ScannedPaths :
       \E reading \in Readings(path) :
          LET imports == extract_use_map(reading.tree, path, <<>>)
              identifiers == extract_identifiers(reading.tree, path)
          IN  /\ scanned' = Append(scanned, reading)
              /\ IF reading.outcome # "ok"
                 THEN /\ pc' = "walk"
                      /\ UNCHANGED <<use_map, used_symbols, ref_idx>>
                 ELSE /\ use_map' = imports.map
                      /\ IF identifiers.ok
                         THEN /\ used_symbols' = identifiers.val
                              /\ ref_idx' = 1
                              /\ pc' = IF Len(identifiers.val) = 0
                                       THEN "walk" ELSE "match"
                         ELSE /\ pc' = "returned"
                              /\ UNCHANGED <<used_symbols, ref_idx>>
    /\ UNCHANGED <<diff, file, tree, project, changed_lines, symbols,
                   scope_stack, symbol, usages, last,
                   base_scope, declaration>>

\* usage.rs:488-516: one turn of the loop over the References of the file
MatchReference ==
    /\ pc = "match"
    /\ LET path == Last(scanned).path
           written == used_symbols[ref_idx]
           used_symbol == Resolve(written, use_map)
           reported == IsUsage(symbol, used_symbol, path)
       IN  /\ usages' = IF reported
                        THEN HashSetInsert(usages, Usage(used_symbol.line, path))
                        ELSE usages
           /\ last' = [path |-> path, written |-> written,
                       resolved |-> used_symbol,
                       import |-> LookupImport(written, use_map),
                       same_file |-> SameFile(symbol, path),
                       reported |-> reported]
    /\ ref_idx' = ref_idx + 1
    /\ pc' = IF ref_idx = Len(used_symbols) THEN "walk" ELSE "match"
    /\ UNCHANGED <<diff, file, tree, project, changed_lines, symbols,
                   scope_stack, symbol, scanned, use_map, used_symbols,
                   base_scope, declaration>>

\* usage.rs:518: the walk is over
ReturnUsages ==
    /\ pc = "walk"
    /\ project \subseteq ScannedPaths
    /\ pc' = "returned"
    /\ UNCHANGED <<diff, file, tree, project, changed_lines, symbols,
                   scope_stack, symbol, scanned, use_map, used_symbols,
                   ref_idx, usages, last,
                   base_scope, declaration>>

Next ==
    \/ GetChangedLines
    \/ SymbolsFromChanges
    \/ FindSymbolUsages
    \/ VisitFile
    \/ MatchReference
    \/ ReturnUsages

Spec == Init /\ [][Next]_vars

NextExtract ==
    \/ GetChangedLines
    \/ SymbolsFromChanges

SpecExtract == InitExtract /\ [][NextExtract]_vars

(***************************************************************************)
(* The import resolver and the scope path deriver on their own: a file of  *)
(* at most MaxDecls declarations, declaration i on line i.                 *)
(***************************************************************************)
\* largest number of top-level declarations of a file
MaxDecls == 2

ItemIds ==
    {"grouped", "alias", "plain", "super", "glob", "mod", "pub_mod", "turbofish",
     "same_name", "grouped_alias", "self", "pub_same_alias", "no_argument",
     "super_super", "mod_body"}

\* the declaration written on line row + 1
ImportItem(id, row) ==
    CASE id = "grouped" ->         \* use prefix::{a, b::{c, d}};
           UseDeclaration(<<>>,
               ScopedUseList(Identifier("prefix", row),
                   UseList(<<Identifier("a", row),
                             ScopedUseList(Identifier("b", row),
                                 UseList(<<Identifier("c", row),
                                           Identifier("d", row)>>, row), row)>>,
                           row), row), row)
      [] id = "alias" ->           \* use prefix::x as y;
           UseDeclaration(<<>>, UseAsClause(PathOf(<<"prefix", "x">>, row), "y", row),
                          row)
      [] id = "plain" ->           \* use crate::a::x;
           UseDeclaration(<<>>, PathOf(<<"crate", "a", "x">>, row), row)
      [] id = "super" ->           \* use super::x;
           UseDeclaration(<<>>, PathOf(<<"super", "x">>, row), row)
      [] id = "glob" ->            \* use prefix::*;
           UseDeclaration(<<>>, UseWildcard(Identifier("prefix", row), TRUE, row), row)
      [] id = "mod" ->             \* mod m;
           ModItem(<<>>, "m", row)
      [] id = "pub_mod" ->         \* pub mod m;
           ModItem(<<VisibilityModifier("pub", row)>>, "m", row)
      [] id = "turbofish" ->       \* use Vec::<u8>::new;
           UseDeclaration(<<>>,
               ScopedIdentifier(TurbofishType("Vec", row), Identifier("new", row), row),
               row)
      [] id = "same_name" ->       \* use other::x;
           UseDeclaration(<<>>, PathOf(<<"other", "x">>, row), row)
      [] id = "grouped_alias" ->   \* use p::{a as b, c};
           UseDeclaration(<<>>,
               ScopedUseList(Identifier("p", row),
                   UseList(<<UseAsClause(Identifier("a", row), "b", row),
                             Identifier("c", row)>>, row), row), row)
      [] id = "self" ->            \* use self::x;
           UseDeclaration(<<>>, PathOf(<<"self", "x">>, row), row)
      [] id = "pub_same_alias" ->  \* pub use q::y;
           UseDeclaration(<<VisibilityModifier("pub", row)>>,
                          PathOf(<<"q", "y">>, row), row)
      [] id = "no_argument" ->     \* use ;   (the argument is missing)
           Node("use_declaration", TRUE, "", "", row, row,
                <<Tok("use", row), Tok(";", row)>>)
      [] id = "super_super" ->     \* use super::super::x;
           UseDeclaration(<<>>, PathOf(<<"super", "super", "x">>, row), row)
      [] id = "mod_body" ->        \* mod m { use z::m; }
           ModItemBody(<<>>, "m", row, row,
                       <<UseDeclaration(<<>>, PathOf(<<"z", "m">>, row), row)>>)

ImportTrees ==
    {SourceFile([i \in 1 .. n |-> ImportItem(ids[i], i - 1)], MaxDecls) :
        <<n, ids>> \in UNION {{<<n, ids>> : ids \in [1 .. n -> ItemIds]} :
                                 n \in 1 .. MaxDecls}}

ImportPaths ==
    {PathBuf(<<"src">>, "a", "rs"),
     PathBuf(<<".", "src">>, "b", "rs"),
     PathBuf(<<"src">>, "lib", "rs"),
     PathBuf(<<"src">>, "main", "rs"),
     PathBuf(<<"src", "m">>, "mod", "rs"),
     PathBuf(<<"src", "m">>, "a", "rs"),
     PathBuf(<<"tests">>, "t", "rs"),
     PathBuf(<<"src-bin">>, "a", "rs"),
     PathBuf(<<"proj", "src">>, "a", "rs"),
     PathBuf(<<".", "m", "tests">>, "lib", "rs"),
     PathBuf(<<>>, "a", "rs"),
     PathBuf(<<>>, "src", "")}

InitImports ==
    /\ file \in ImportPaths
    /\ tree \in ImportTrees
    /\ diff = {}
    /\ project = {file}
    /\ InitRest

\* the use_declaration and mod_item nodes in the order extract_use_map meets them
RECURSIVE Declarations(_)
RECURSIVE DeclarationsOfChildren(_, _)
DeclarationsOfChildren(children, i) ==
    IF i > Len(children) THEN <<>>
    ELSE Declarations(children[i]) \o DeclarationsOfChildren(children, i + 1)

Declarations(node) ==
    (IF node.kind \in {"use_declaration", "mod_item"} THEN <<node>> ELSE <<>>)
    \o DeclarationsOfChildren(NamedChildren(node), 1)

\* language.scope_from_path(path)
ScopeFromPath ==
    /\ pc = "start"
    /\ base_scope' = scope_from_path(file)
    /\ ref_idx' = 1
    /\ pc' = "scoped"
    /\ UNCHANGED <<diff, file, tree, project, changed_lines, symbols,
                   scope_stack, symbol, scanned, use_map, used_symbols, usages,
                   last, declaration>>

\* usage.rs:389: the next use_declaration is resolved
ProcessUseDeclaration ==
    /\ pc = "scoped"
    /\ ref_idx <= Len(Declarations(tree))
    /\ Declarations(tree)[ref_idx].kind = "use_declaration"
    /\ declaration' = [node |-> Declarations(tree)[ref_idx],
                       result |-> process_use_declaration(
                                      Declarations(tree)[ref_idx], file)]
    /\ ref_idx' = ref_idx + 1
    /\ UNCHANGED <<diff, file, tree, project, pc, changed_lines, symbols,
                   scope_stack, symbol, scanned, use_map, used_symbols, usages,
                   last, base_scope>>

\* usage.rs:393: the next mod_item is resolved
ProcessModItem ==
    /\ pc = "scoped"
    /\ ref_idx <= Len(Declarations(tree))
    /\ Declarations(tree)[ref_idx].kind = "mod_item"
    /\ declaration' = [node |-> Declarations(tree)[ref_idx],
                       result |-> process_mod_item(Declarations(tree)[ref_idx], file)]
    /\ ref_idx' = ref_idx + 1
    /\ UNCHANGED <<diff, file, tree, project, pc, changed_lines, symbols,
                   scope_stack, symbol, scanned, use_map, used_symbols, usages,
                   last, base_scope>>

\* usage.rs:473-482: the Import Map of the file is built
ExtractUseMap ==
    /\ pc = "scoped"
    /\ ref_idx > Len(Declarations(tree))
    /\ use_map' = extract_use_map(tree, file, <<>>).map
    /\ pc' = IF extract_use_map(tree, file, <<>>).ok THEN "mapped" ELSE "map_failed"
    /\ UNCHANGED <<diff, file, tree, project, changed_lines, symbols,
                   scope_stack, symbol, scanned, used_symbols, ref_idx, usages,
                   last, base_scope, declaration>>

\* largest number of directory components of a path given to scope_from_path
MaxDirs == 2

\* paths of files: up to MaxDirs directories, then the file name
ScopePaths ==
    {PathBuf(dirs, stem, ext) :
        dirs \in UNION {[1 .. n -> {".", "src", "tests", "src-bin", "m"}] :
                            n \in 0 .. MaxDirs},
        stem \in {"a", "mod", "lib", "main", "src"},
        ext \in {"rs", ""}}

InitPaths ==
    /\ file \in ScopePaths
    /\ tree = SourceFile(<<>>, 0)
    /\ diff = {}
    /\ project = {file}
    /\ InitRest

NextPaths == ScopeFromPath

SpecPaths == InitPaths /\ [][NextPaths]_vars

NextImports ==
    \/ ScopeFromPath
    \/ ProcessUseDeclaration
    \/ ProcessModItem
    \/ ExtractUseMap

SpecImports == InitImports /\ [][NextImports]_vars

(***************************************************************************)
(* Properties.                                                             *)
(***************************************************************************)
\* a candidate file: `head` on line 1, `fn main() {` on line 4, the bare call
\* `<fn>();` on line 8
CallerTree(head, fn) ==
    SourceFile(<<head, FunctionItem(<<>>, "main", 3, 3, 8,
                          <<CallStatement(Identifier(fn, 7), 7)>>)>>, 9)

\* the walk has read and matched a file other than the declaring file that holds
\* `use <segs>;` and the bare call of the target on line 8
ScannedCaller(i, segs) ==
    /\ scanned[i].outcome = "ok"
    /\ Canonicalize(scanned[i].path) # Canonicalize(symbol.file)
    /\ scanned[i].tree =
          CallerTree(UseDeclaration(<<>>, PathOf(segs, 0), 0), name(symbol))

Matched == last # NoLast

\* C2: a Reference of a file other than the declaring file leads to a Usage
\* exactly when its resolved segment sequence equals the target's scope and its
\* final name equals the target's name; a resolved sequence that is a proper
\* prefix or a proper suffix of the scope leads to none.
C2_CrossFileExact ==
    (Matched /\ ~last.same_file) =>
        /\ last.reported <=> (/\ last.resolved.scope = symbol.scope
                              /\ name(last.resolved) = name(symbol))
        /\ last.reported =>
              Usage(last.resolved.line, last.path) \in usages
        /\ (/\ last.resolved.scope # symbol.scope
            /\ \/ IsPrefix(last.resolved.scope, symbol.scope)
               \/ IsSuffix(last.resolved.scope, symbol.scope))
           => ~last.reported

\* an exact match of the file is in the result and the Reference matched last,
\* of the same name, resolves to a proper suffix of the scope and is not reported
C2_Reached ==
    /\ Matched
    /\ ~last.same_file
    /\ \E u \in usages : u.file = last.path
    /\ name(last.resolved) = name(symbol)
    /\ last.resolved.scope = Tail(symbol.scope)
    /\ ~last.reported

\* C3: in the declaring file every Reference whose final name is the target's
\* name is reported, whatever its prefix and whatever it resolves to: the
\* same-file rule is decided first.
C3_SameFileByName ==
    (Matched /\ last.same_file /\ name(last.resolved) = name(symbol)) =>
        /\ last.reported
        /\ Usage(last.resolved.line, last.path) \in usages

\* a same-file Reference of the target's name, written with a prefix, that the
\* cross-file rule would reject
C3_Reached ==
    /\ Matched
    /\ last.same_file
    /\ name(last.resolved) = name(symbol)
    /\ Len(last.written.scope) > 1
    /\ last.resolved.scope # symbol.scope
    /\ last.reported

\* C4: a Reference of the declaring file is reported only if its final name is
\* the target's name.
C4_SameFileOnlyByName ==
    (Matched /\ last.same_file /\ last.reported) =>
        name(last.resolved) = name(symbol)

\* use_map is the Import Map of the file of the Reference matched last
MapOfLast ==
    /\ Matched
    /\ Len(scanned) > 0
    /\ Last(scanned).path = last.path
    /\ Last(scanned).outcome = "ok"

\* C5: a bare reference to the target's name in a file other than the declaring
\* file, whose Import Map holds no import of the target's path, is not reported.
C5_BareNotImported ==
    (/\ MapOfLast
     /\ ~last.same_file
     /\ last.written.scope = <<name(symbol)>>
     /\ \A k \in DOMAIN use_map : use_map[k].scope # symbol.scope)
    => ~last.reported

\* the Import Map holds the glob import of the target's module
GlobOfTarget ==
    \E k \in DOMAIN use_map : use_map[k].scope = Append(Pop(symbol.scope), "*")

Elements(s) == {s[i] : i \in 1 .. Len(s)}

\* C6: in a file other than the declaring file that holds `use prefix::*;`, with
\* the target at prefix::thing, a bare `thing` that no other import names is not
\* reported; and no Reference resolved through an import whose path holds "*"
\* is reported.
C6_WildcardNeverMatches ==
    /\ (/\ MapOfLast
        /\ ~last.same_file
        /\ GlobOfTarget
        /\ last.written.scope = <<name(symbol)>>
        /\ name(symbol) \notin DOMAIN use_map)
       => ~last.reported
    /\ (/\ Matched
        /\ ~last.same_file
        /\ last.import # None
        /\ "*" \in Elements(last.import[1].scope))
       => ~last.reported

C6_Reached ==
    /\ MapOfLast
    /\ ~last.same_file
    /\ GlobOfTarget
    /\ last.written.scope = <<name(symbol)>>
    /\ name(symbol) \notin DOMAIN use_map
    /\ last.import = None
    /\ ~last.reported

RECURSIVE Subnodes(_)
Subnodes(n) ==
    {n} \cup UNION {Subnodes(n.children[i]) : i \in 1 .. Len(n.children)}

\* the symbol-defining nodes that lie in no other symbol-defining node
RECURSIVE OutermostFunctions(_)
OutermostFunctions(n) ==
    IF get_name_node_of_symbol(n) # None THEN {n}
    ELSE UNION {OutermostFunctions(n.children[i]) : i \in 1 .. Len(n.children)}

\* the symbol-defining nodes that lie in another one
NestedFunctions(t) ==
    UNION {{m \in Subnodes(f) : m # f /\ get_name_node_of_symbol(m) # None} :
              f \in OutermostFunctions(t)}

\* a Symbol was emitted for the symbol-defining node n
Emitted(n) ==
    \E i \in 1 .. Len(symbols) :
        /\ symbols[i].naming = Some(get_name_node_of_symbol(n)[1].text)
        /\ symbols[i].line = get_name_node_of_symbol(n)[1].row + 1

\* C7: a symbol-defining node (in no other one) is emitted exactly when some
\* changed line L has start_row + 1 <= L <= end_row + 1.
C7_InclusiveLines ==
    pc = "symbols" =>
        \A n \in OutermostFunctions(tree) :
            Emitted(n) <=> \E L \in changed_lines :
                               n.row + 1 <= L /\ L <= n.endRow + 1

\* file a holds `fn helper()` alone, its name token on line 5, and line 5 alone
\* is changed
HelperOnLine5 ==
    /\ pc = "symbols"
    /\ file = GitPath("a")
    /\ changed_lines = {5}
    /\ Len(tree.children) = 1
    /\ get_name_node_of_symbol(tree.children[1]) # None
    /\ get_name_node_of_symbol(tree.children[1])[1].text = "helper"
    /\ get_name_node_of_symbol(tree.children[1])[1].row + 1 = 5

C9_NoNestedSymbol ==
    pc = "symbols" => \A n \in NestedFunctions(tree) : ~Emitted(n)

\* a changed line falls in a nested function and the enclosing one is emitted
C9_Reached ==
    /\ pc = "symbols"
    /\ Len(symbols) = 1
    /\ \E n \in NestedFunctions(tree) : LineOverlaps(n, changed_lines)

\* C10: walk_tree returns with the scope stack it was entered with, for every
\* node of the tree, so the stack after the walk is its seed.
C10_StackBalanced ==
    pc = "symbols" =>
        /\ scope_stack = scope_from_path(file)
        /\ \A n \in Subnodes(tree) :
           \A seed \in {<<>>, scope_from_path(file)} :
               walk_tree(n, file, changed_lines,
                         [symbols |-> <<>>, scope_stack |-> seed]).scope_stack
               = seed

\* a Symbol was emitted under a module: names were pushed on the paths that
\* emit and on those that do not
C10_Reached ==
    /\ pc = "symbols"
    /\ Len(symbols) = 1
    /\ Len(symbols[1].scope) = 4
    /\ scope_stack = <<"crate", "a">>

\* the declaration resolved last is the item `id` of the scenarios
Resolved(id) ==
    /\ declaration.node # NoNode
    /\ declaration.node = ImportItem(id, declaration.node.row)

Scopes(imports) == [i \in 1 .. Len(imports) |-> imports[i].scope]

\* the number of leaf clauses of a use clause
RECURSIVE LeafCount(_)
RECURSIVE LeafCountOfChildren(_, _)
LeafCountOfChildren(children, i) ==
    IF i > Len(children) THEN 0
    ELSE LeafCount(children[i]) + LeafCountOfChildren(children, i + 1)

LeafCount(clause) ==
    IF clause.kind = "use_list"
    THEN LeafCountOfChildren(NamedChildren(clause), 1)
    ELSE IF clause.kind = "scoped_use_list"
    THEN LeafCount(ChildByFieldName(clause, "list"))
    ELSE 1

\* C11: `use prefix::{a, b::{c, d}};` resolves to exactly the three Imports
\* [prefix, a], [prefix, b, c], [prefix, b, d]; every use declaration that
\* resolves gives one Import per leaf clause, and under a grouped list each of
\* them starts with the prefix written in front of the list.
C11_GroupedFanOut ==
    /\ Resolved("grouped") =>
          /\ declaration.result.ok
          /\ Scopes(declaration.result.val)
                = <<<<"prefix", "a">>, <<"prefix", "b", "c">>, <<"prefix", "b", "d">>>>
    /\ (/\ declaration.node # NoNode
        /\ declaration.node.kind = "use_declaration"
        /\ declaration.result.ok) =>
          LET argument == ChildByFieldName(declaration.node, "argument")
          IN  /\ Len(declaration.result.val) = LeafCount(argument)
              /\ (/\ argument.kind = "scoped_use_list"
                  /\ ChildByFieldName(argument, "path").kind = "identifier") =>
                    \A i \in 1 .. Len(declaration.result.val) :
                        IsPrefix(<<ChildByFieldName(argument, "path").text>>,
                                 declaration.result.val[i].scope)

C11_Reached ==
    /\ Resolved("grouped")
    /\ Len(declaration.result.val) = 3
    /\ LeafCount(ChildByFieldName(declaration.node, "argument")) = 3

\* the Import Map of the file has been built (whether or not the walk failed)
MapBuilt == pc \in {"mapped", "map_failed"}

\* C12: `use prefix::x as y;` resolves to one Import of local name y and path
\* [prefix, x]; an alias clause leaves the path what its path child alone
\* resolves to, and an aliased Import sits in the Import Map under its alias.
C12_AliasPrecedence ==
    /\ Resolved("alias") =>
          /\ declaration.result.ok
          /\ Len(declaration.result.val) = 1
          /\ name(declaration.result.val[1]) = "y"
          /\ declaration.result.val[1].scope = <<"prefix", "x">>
    /\ (/\ declaration.node # NoNode
        /\ declaration.node.kind = "use_declaration"
        /\ ChildByFieldName(declaration.node, "argument") # NoNode
        /\ ChildByFieldName(declaration.node, "argument").kind = "use_as_clause") =>
          LET clause == ChildByFieldName(declaration.node, "argument")
              unaliased == process_use_declaration(
                               UseDeclaration(<<>>, ChildByFieldName(clause, "path"),
                                              declaration.node.row), file)
          IN  /\ declaration.result.ok = unaliased.ok
              /\ Scopes(declaration.result.val) = Scopes(unaliased.val)
    /\ MapBuilt =>
          \A k \in DOMAIN use_map :
              use_map[k].naming # None =>
                  /\ use_map[k].naming = Some(k)
                  /\ k = "y" => use_map[k].scope = <<"prefix", "x">>
                  /\ k = "b" => use_map[k].scope = <<"p", "a">>

\* the alias declaration was resolved last and its Import is in the map under y
C12_Reached ==
    /\ pc = "mapped"
    /\ Resolved("alias")
    /\ "y" \in DOMAIN use_map
    /\ use_map["y"].naming = Some("y")
    /\ use_map["y"].scope = <<"prefix", "x">>

\* the i-th Reference of the file matched last was reported
ReportedAt(i) == IsUsage(symbol, Resolve(used_symbols[i], use_map), last.path)

UsagesAt(f, line) == {u \in usages : u.file = f /\ u.line = line}

\* C13: the result holds at most one Usage per (file, line), and the
\* References reported on one line of one file are one Usage of the result.
C13_OneUsagePerLine ==
    /\ \A u \in usages : Cardinality(UsagesAt(u.file, u.line)) = 1
    /\ MapOfLast =>
          \A i \in 1 .. Len(used_symbols) :
              (i < ref_idx /\ ReportedAt(i)) =>
                  Cardinality(UsagesAt(last.path, used_symbols[i].line)) = 1

\* two References of line 8 of a candidate file were reported
C13_Reached ==
    /\ MapOfLast
    /\ ~last.same_file
    /\ \E i, j \in 1 .. Len(used_symbols) :
          /\ i < j /\ j < ref_idx
          /\ used_symbols[i].line = 8 /\ used_symbols[j].line = 8
          /\ ReportedAt(i) /\ ReportedAt(j)
    /\ Cardinality(UsagesAt(last.path, 8)) = 1

\* what resolving the declaration d of `file` returns
ResultOf(d) ==
    IF d.kind = "mod_item" THEN process_mod_item(d, file)
    ELSE process_use_declaration(d, file)

\* the Import Map in which every declaration that resolves has its entries and
\* a declaration that fails has none
RECURSIVE MapOfDeclarations(_, _, _)
MapOfDeclarations(decls, i, map) ==
    IF i > Len(decls) THEN map
    ELSE MapOfDeclarations(decls, i + 1,
             IF ResultOf(decls[i]).ok
             THEN InsertAll(map, ResultOf(decls[i]).val, 1)
             ELSE map)

\* C14: a declaration that fails to resolve adds no entry to the Import Map of
\* the file, and every other declaration of the file, before or after it, has
\* its entries in the map.
C14_DeclarationScopedErrors ==
    MapBuilt => use_map = MapOfDeclarations(Declarations(tree), 1, <<>>)

\* the Usages find_symbol_usages inserts for the file path holding the tree t
FileUsages(target, path, t) ==
    LET imports == extract_use_map(t, path, <<>>).map
        identifiers == extract_identifiers(t, path)
    IN  IF ~identifiers.ok THEN {}
        ELSE {Usage(identifiers.val[i].line, path) :
                 i \in {j \in 1 .. Len(identifiers.val) :
                           IsUsage(target, Resolve(identifiers.val[j], imports), path)}}

\* C15: whatever step fails for one file, find_symbol_usages scans every other
\* file of the project, and the Usages of the files that can be processed (here
\* those of the declaring file) are in the set it returns.
C15_FailuresNotFatal ==
    pc = "returned" =>
        /\ project \subseteq ScannedPaths
        /\ FileUsages(symbol, WalkPath(file), tree) \subseteq usages

\* what the walk reads at p: the declaring file holds `tree`, a candidate file
\* what the walk read when it scanned it
ContentOf(p) ==
    IF Canonicalize(p) = Canonicalize(file)
    THEN [path |-> p, tree |-> tree, outcome |-> "ok"]
    ELSE CHOOSE reading \in {scanned[i] : i \in 1 .. Len(scanned)} : reading.path = p

\* find_symbol_usages over the files in the given order
RECURSIVE WalkInOrder(_, _, _)
WalkInOrder(order, i, found) ==
    IF i > Len(order) THEN found
    ELSE IF ContentOf(order[i]).outcome # "ok"
    THEN WalkInOrder(order, i + 1, found)
    ELSE IF ~extract_identifiers(ContentOf(order[i]).tree, order[i]).ok
    THEN found
    ELSE WalkInOrder(order, i + 1,
             found \cup FileUsages(symbol, order[i], ContentOf(order[i]).tree))

\* the orders in which the walk may yield the files of the project
Orders ==
    {order \in [1 .. Cardinality(project) -> project] :
        \A i, j \in 1 .. Cardinality(project) : order[i] = order[j] => i = j}

\* C16: the set find_symbol_usages returns is the set it returns for every
\* other order of visiting the same files.
C16_OrderIndependent ==
    pc = "returned" => \A order \in Orders : WalkInOrder(order, 1, {}) = usages

\* scope_from_path has returned for `file`
Scoped == pc \in {"scoped", "mapped", "map_failed"}

IndexFile(p) == p.stem \in {"mod", "lib", "main"}

\* the segments of base_scope that come from directory components
DirectorySegments ==
    IF IndexFile(file) THEN Tail(base_scope) ELSE Pop(Tail(base_scope))

\* C17: scope_from_path returns a sequence that starts with `crate`; after it
\* come directory components of the path, in order, and then the stem of the
\* file, unless the file is mod, lib or main, which adds no segment.
C17_ScopeOfPath ==
    Scoped =>
        /\ Len(base_scope) >= 1
        /\ base_scope[1] = "crate"
        /\ IsSuffix(DirectorySegments, Pop(Components(file)))
        /\ IndexFile(file) => Len(base_scope) <= Len(Components(file))
        /\ ~IndexFile(file) =>
              /\ Len(base_scope) >= 2
              /\ Last(base_scope) = file.stem

\* src/m/mod.rs is the module crate::m
C17_Reached ==
    /\ Scoped
    /\ file = PathBuf(<<"src", "m">>, "mod", "rs")
    /\ base_scope = <<"crate", "m">>

\* C18: no segment of the scope comes from a directory named src, tests or
\* src-bin, wherever the directory stands in the path.
C18_NoRootMarker ==
    Scoped =>
        \A i \in 1 .. Len(DirectorySegments) :
            DirectorySegments[i] \notin {"src", "tests", "src-bin"}

\* the Imports of the declarations the walk visits, in pre-order: the walk
\* ends at the first declaration that fails
RECURSIVE ProducedFrom(_, _)
ProducedFrom(decls, i) ==
    IF i > Len(decls) THEN <<>>
    ELSE IF ~ResultOf(decls[i]).ok THEN <<>>
    ELSE ResultOf(decls[i]).val \o ProducedFrom(decls, i + 1)

Produced == ProducedFrom(Declarations(tree), 1)

\* C19: the Import Map has one entry for each local name the visited
\* declarations produce, and it is the one produced last in the pre-order walk.
C19_LaterImportWins ==
    MapBuilt =>
        /\ DOMAIN use_map = {name(Produced[i]) : i \in 1 .. Len(Produced)}
        /\ \A i \in 1 .. Len(Produced) :
              (\A j \in 1 .. Len(Produced) :
                  name(Produced[j]) = name(Produced[i]) => j <= i)
              => use_map[name(Produced[i])] = Produced[i]

\* `use crate::a::x;` then `use other::x;`: x is other::x
C19_Reached ==
    /\ pc = "mapped"
    /\ Len(Produced) = 2
    /\ name(Produced[1]) = "x" /\ name(Produced[2]) = "x"
    /\ Produced[1].scope = <<"crate", "a", "x">>
    /\ Produced[2].scope = <<"other", "x">>
    /\ use_map["x"] = Produced[2]

\* a candidate file: `use crate::<stem>::<fn> as y;` on line 1 and the call
\* `y();` on line 8
AliasCallerTree(stem, fn) ==
    SourceFile(<<UseDeclaration(<<>>,
                     UseAsClause(PathOf(<<"crate", stem, fn>>, 0), "y", 0), 0),
                 FunctionItem(<<>>, "main", 3, 3, 8,
                              <<CallStatement(Identifier("y", 7), 7)>>)>>, 9)

\* C20: when find_symbol_usages has returned for the function <fn> of
\* src/<stem>.rs, every other file it scanned that holds
\* `use crate::<stem>::<fn> as y;` and the call `y();` on line 8 has the Usage
\* {file, line 8} in the result.
C20_AliasHonored ==
    pc = "returned" =>
        \A i \in 1 .. Len(scanned) :
            (/\ scanned[i].outcome = "ok"
             /\ Canonicalize(scanned[i].path) # Canonicalize(symbol.file)
             /\ scanned[i].tree = AliasCallerTree(file.stem, name(symbol)))
            => Usage(8, scanned[i].path) \in usages

\* the nodes of the tree under node, each with the scope names of the nodes
\* that enclose it, outermost first
RECURSIVE Located(_, _)
Located(node, enclosing) ==
    {<<node, enclosing>>}
    \cup UNION {Located(node.children[i],
                        IF get_scope_name_for_node(node) # None
                        THEN Append(enclosing, get_scope_name_for_node(node)[1])
                        ELSE enclosing) : i \in 1 .. Len(node.children)}

\* C21: the scope of every emitted Symbol is not empty: it is the base scope
\* of the file, then the scope names of the nodes enclosing the defining node,
\* outermost first, then the Symbol's own name.
C21_ScopeOfSymbol ==
    pc = "symbols" =>
        \A i \in 1 .. Len(symbols) :
            /\ Len(symbols[i].scope) > 0
            /\ Last(symbols[i].scope) = name(symbols[i])
            /\ \E at \in Located(tree, <<>>) :
                  /\ get_name_node_of_symbol(at[1]) # None
                  /\ symbols[i].naming = Some(get_name_node_of_symbol(at[1])[1].text)
                  /\ symbols[i].line = get_name_node_of_symbol(at[1])[1].row + 1
                  /\ symbols[i].scope
                        = scope_from_path(file) \o at[2] \o <<name(symbols[i])>>

\* a method of `impl T` in src/a.rs
C21_Reached ==
    /\ pc = "symbols"
    /\ Len(symbols) = 1
    /\ symbols[1].scope = <<"crate", "a", "T", "helper">>

\* C22: `super` stands for the scope of the current file without its last
\* segment: `use super::x;` in a file of scope S resolves to one Import whose
\* path is S without its last segment, then x; each further `super` appends
\* the same segments again.
C22_SuperIsParentScope ==
    /\ Resolved("super") =>
          /\ declaration.result.ok
          /\ Scopes(declaration.result.val) = <<Pop(base_scope) \o <<"x">>>>
    /\ Resolved("super_super") =>
          /\ declaration.result.ok
          /\ Scopes(declaration.result.val)
                = <<Pop(base_scope) \o Pop(base_scope) \o <<"x">>>>

\* `use super::x;` in src/m/a.rs is crate::m::x
C22_Reached ==
    /\ Resolved("super")
    /\ file = PathBuf(<<"src", "m">>, "a", "rs")
    /\ base_scope = <<"crate", "m", "a">>
    /\ Scopes(declaration.result.val) = <<<<"crate", "m", "x">>>>

\* the walk of extract_use_map reaches the i-th declaration of the file: no
\* declaration before it fails
Visited(i) ==
    \A j \in 1 .. i - 1 : ResultOf(Declarations(tree)[j]).ok

\* the local names the declaration d brings
NamesOf(d) ==
    IF ResultOf(d).ok
    THEN {name(ResultOf(d).val[k]) : k \in 1 .. Len(ResultOf(d).val)}
    ELSE {}

HasVisibility(node) ==
    \E k \in 1 .. Len(node.children) : node.children[k].kind = "visibility_modifier"

RECURSIVE OutermostPaths(_)
RECURSIVE OutermostPathsOfChildren(_, _)
OutermostPathsOfChildren(children, i) ==
    IF i > Len(children) THEN <<>>
    ELSE OutermostPaths(children[i]) \o OutermostPathsOfChildren(children, i + 1)

OutermostPaths(node) ==
    IF node.kind \in {"scoped_identifier", "identifier"} THEN <<node>>
    ELSE OutermostPathsOfChildren(NamedChildren(node), 1)

\* the segments of a path as they are written
RECURSIVE Written(_)
Written(node) ==
    IF node.kind = "scoped_identifier"
    THEN (IF ChildByFieldName(node, "path") = NoNode THEN <<>>
          ELSE Written(ChildByFieldName(node, "path")))
         \o <<ChildByFieldName(node, "name").text>>
    ELSE <<node.text>>

\* a path made of identifiers, with `crate` in front or not
RECURSIVE IsPlainPath(_)
IsPlainPath(node) ==
    IF node.kind = "scoped_identifier"
    THEN /\ ChildByFieldName(node, "path") # NoNode
         /\ ChildByFieldName(node, "path").kind
               \in {"scoped_identifier", "identifier", "crate"}
         /\ IsPlainPath(ChildByFieldName(node, "path"))
         /\ ChildByFieldName(node, "name").kind = "identifier"
    ELSE node.kind \in {"identifier", "crate"}

\* C24: the References of a file are, in order, one for each outermost
\* qualified path, holding its segments as written, and one for each identifier
\* outside of a qualified path, holding the identifier alone; no Reference
\* stands for a part of a qualified path.
C24_OneReferencePerPath ==
    pc = "match" =>
        LET nodes == OutermostPaths(Last(scanned).tree)
        IN  /\ Len(used_symbols) = Len(nodes)
            /\ \A i \in 1 .. Len(nodes) :
                  /\ used_symbols[i].line = nodes[i].row + 1
                  /\ used_symbols[i].naming = None
                  /\ nodes[i].kind = "identifier" =>
                        used_symbols[i].scope = <<nodes[i].text>>
                  /\ IsPlainPath(nodes[i]) =>
                        used_symbols[i].scope = Written(nodes[i])

\* a file holding `fn main() { crate::a::helper(); }`: two References
C24_Reached ==
    /\ pc = "match"
    /\ Len(used_symbols) = 2
    /\ used_symbols[1].scope = <<"main">>
    /\ Len(used_symbols[2].scope) = 3
    /\ used_symbols[2].scope[1] = "crate"
    /\ used_symbols[2].line = 8

\* the node kinds the resolver has a rule for
ClosedSet ==
    {"self", "crate", "super", "identifier", "metavariable", "scoped_identifier",
     "use_as_clause", "use_list", "scoped_use_list", "use_wildcard"}

\* C25: no Reference of a file comes from a path that holds a node of a kind
\* outside the closed set: such a path is an error and gives no Reference.
C25_ClosedSetOfShapes ==
    pc = "match" =>
        LET nodes == OutermostPaths(Last(scanned).tree)
        IN  \A i \in 1 .. Len(used_symbols) :
                \A n \in Subnodes(nodes[i]) : n.named => n.kind \in ClosedSet

\* the sequence the splicing rule gives for the written segments of a Reference
Spliced(written, map) ==
    IF Len(written) > 0 /\ written[1] \in DOMAIN map
    THEN Pop(map[written[1]].scope) \o written
    ELSE written

\* C26: a Reference whose first written segment is a key of the Import Map of
\* its file is resolved to the path of that Import without its last segment,
\* followed by all the written segments; any other Reference stays as written;
\* and in a file other than the declaring file the Reference is reported
\* exactly when that sequence is the scope of the target.
C26_ImportSplicing ==
    MapOfLast =>
        /\ last.resolved.scope = Spliced(last.written.scope, use_map)
        /\ last.resolved.line = last.written.line
        /\ ~last.same_file =>
              (last.reported <=> Spliced(last.written.scope, use_map) = symbol.scope)

\* `use crate::a;` and the call `a::helper()`: resolved to crate::a::helper
C26_Reached ==
    /\ MapOfLast
    /\ ~last.same_file
    /\ last.written.scope = <<"a", "helper">>
    /\ "a" \in DOMAIN use_map
    /\ use_map["a"].scope = <<"crate", "a">>
    /\ last.resolved.scope = <<"crate", "a", "helper">>
    /\ last.reported

\* the declaration d of a qualified grouped list, with the element e alone in
\* the list
Alone(d, e) ==
    LET argument == ChildByFieldName(d, "argument")
    IN  UseDeclaration(IF FirstChildIsVisibility(d) THEN <<d.children[1]>> ELSE <<>>,
                       ScopedUseList(ChildByFieldName(argument, "path"),
                                     UseList(<<e>>, d.row), d.row), d.row)

\* the Imports of the elements, each resolved alone, one after the other
RECURSIVE AloneFrom(_, _, _)
AloneFrom(d, elements, i) ==
    IF i > Len(elements) THEN <<>>
    ELSE process_use_declaration(Alone(d, elements[i]), file).val
         \o AloneFrom(d, elements, i + 1)

\* C27: `use p::{a as b, c};` resolves to the Import b of path [p, a] and the
\* Import without alias of path [p, c]; the Imports of a qualified grouped list
\* are those of its elements, each resolved alone under the prefix, one after
\* the other.
C27_BranchIndependence ==
    /\ Resolved("grouped_alias") =>
          /\ declaration.result.ok
          /\ Len(declaration.result.val) = 2
          /\ declaration.result.val[1].naming = Some("b")
          /\ declaration.result.val[1].scope = <<"p", "a">>
          /\ declaration.result.val[2].naming = None
          /\ declaration.result.val[2].scope = <<"p", "c">>
    /\ (/\ declaration.node # NoNode
        /\ declaration.node.kind = "use_declaration"
        /\ declaration.result.ok
        /\ ChildByFieldName(declaration.node, "argument").kind = "scoped_use_list") =>
          declaration.result.val
             = AloneFrom(declaration.node,
                         NamedChildren(ChildByFieldName(
                             ChildByFieldName(declaration.node, "argument"), "list")),
                         1)

\* `use p::{a as b, c};` on line 2 of src/a.rs
C27_Reached ==
    /\ Resolved("grouped_alias")
    /\ declaration.node.row = 1
    /\ file = PathBuf(<<"src">>, "a", "rs")
    /\ Len(declaration.result.val) = 2
    /\ name(declaration.result.val[1]) = "b"
    /\ name(declaration.result.val[2]) = "c"

\* the node has a visibility modifier that reaches further than its own scope
VisibleOutside(node) ==
    \E k \in 1 .. Len(node.children) :
        /\ node.children[k].kind = "visibility_modifier"
        /\ node.children[k].text # "pub(self)"

\* C28: an emitted Symbol is exported exactly when its defining node is visible
\* outside of the scope it is defined in: not without a visibility modifier,
\* and not with `pub(self)`.
C28_ExportedFlag ==
    pc = "symbols" =>
        \A n \in OutermostFunctions(tree) :
            \A i \in 1 .. Len(symbols) :
                (/\ symbols[i].naming = Some(get_name_node_of_symbol(n)[1].text)
                 /\ symbols[i].line = get_name_node_of_symbol(n)[1].row + 1)
                => (symbols[i].is_exported <=> VisibleOutside(n))

\* C29: in every path a declaration resolves to, "crate" stands at most once,
\* and only as the first segment.
C29_RootSegmentFirst ==
    (declaration.node # NoNode /\ declaration.result.ok) =>
        \A i \in 1 .. Len(declaration.result.val) :
            \A k \in 1 .. Len(declaration.result.val[i].scope) :
                declaration.result.val[i].scope[k] = "crate" => k = 1

\* a candidate file: `use crate::<stem>::<fn>;` on line 1 and, on line 8, the
\* call `other();` that does not name the target
ImportOnlyTree(stem, fn) ==
    SourceFile(<<UseDeclaration(<<>>, PathOf(<<"crate", stem, fn>>, 0), 0),
                 FunctionItem(<<>>, "main", 3, 3, 8,
                              <<CallStatement(Identifier("other", 7), 7)>>)>>, 9)

\* the file scanned i-th is another file than the declaring one and holds the
\* import of the target by its full path, and no other mention of it
ImportsOnly(i) ==
    /\ scanned[i].outcome = "ok"
    /\ Canonicalize(scanned[i].path) # Canonicalize(symbol.file)
    /\ scanned[i].tree = ImportOnlyTree(file.stem, name(symbol))
    /\ symbol.scope = <<"crate", file.stem, name(symbol)>>

\* C30: a file other than the declaring file that holds
\* `use crate::<stem>::<fn>;` is reported at the line of that declaration, even
\* when it names the target nowhere else.
C30_ImportIsUseSite ==
    pc = "returned" =>
        \A i \in 1 .. Len(scanned) :
            ImportsOnly(i) => Usage(1, scanned[i].path) \in usages

\* src/b.rs imports crate::a::helper on line 1: its only Usage is that line
C30_Reached ==
    /\ pc = "returned"
    /\ \E i \in 1 .. Len(scanned) :
          /\ ImportsOnly(i)
          /\ scanned[i].path = PathBuf(<<".", "src">>, "b", "rs")
          /\ name(symbol) = "helper"
          /\ {u \in usages : u.file = scanned[i].path} = {Usage(1, scanned[i].path)}

====
